---- MODULE Spec2Model ----
(***************************************************************************)
(* A model of juno's JSON-RPC dispatcher (jsonrpc/server.go), of the       *)
(* transaction hash verifier and the transaction and event commitments     *)
(* (core/transaction.go), of Node.Run (node/node.go) and of the settings   *)
(* the juno command resolves (cmd/juno).                                   *)
(*                                                                         *)
(* Go strings that the code inspects character by character (the literal   *)
(* of a json.Number) are sequences of one-character strings; strings that  *)
(* are only compared (method names, messages) are TLA+ strings.            *)
(***************************************************************************)
EXTENDS Integers, Sequences, FiniteSets, TLC

VARIABLES
    methods,    \* Server.methods: the registered Method of each registered name
    input,      \* the bytes given to the Handle call in progress (NoData when idle)
    out,        \* what that Handle call returned
    resObjs,    \* the *response computed for each request of the call, in order
    calls,      \* the handler invocations of the call, in order
    registration, \* the RegisterMethod call in progress: its method and its error
    txs,        \* the transactions given to the verifyTransactions call in progress
    network,    \* the network given to it
    verdict,    \* what verifyTransactions returned
    committing, \* the commitment call in progress: its kind and its arguments
    committed,  \* what it returned, with the puts made on its trie
    node,       \* Node.Run: where it is, its configuration, n.db and its Close calls
    services,   \* the goroutine of each started service: where it is, what Run returned
    runErr,     \* the err variable of Node.Run, which the goroutines share
    ctx,        \* whether the context of Node.Run is cancelled
    cmd         \* the juno command being executed: its arguments, config and error

vars == <<methods, input, out, resObjs, calls, registration, txs, network, verdict,
          committing, committed, node, services, runErr, ctx, cmd>>
rpcVars == <<methods, input, out, resObjs, calls, registration>>
coreVars == <<txs, network, verdict>>
commitVars == <<committing, committed>>
nodeVars == <<node, services, runErr, ctx>>
cmdVars == <<cmd>>

\* ------------------------------------------------------------------ bounds
\* The longest batch with more than one element.
MaxBatch == 3
\* The longest positional params array.
MaxParams == 2
\* The longest transaction list.
MaxTxs == 3
\* The longest receipt list.
MaxReceipts == 2
\* The most events of a receipt.
MaxEvents == 2

\* ------------------------------------------------------- jsonrpc constants
InvalidJSON == -32700
InvalidRequest == -32600
MethodNotFound == -32601
InvalidParams == -32602
InternalError == -32603

ErrInvalidID == "id should be a string or an integer"

\* --------------------------------------------------------------- Go values
\* A Go value held in an `any`: its dynamic type t and its content v.
\* json.Decoder with UseNumber decodes a JSON number to a json.Number.
Nil == [t |-> "nil", v |-> <<>>]

GoValue(t, v) == [t |-> t, v |-> v]

\* A JSON value as it stands in the request or response text.
JSON(k, v) == [k |-> k, v |-> v]

JAbsent == JSON("absent", <<>>)
JNull == JSON("null", <<>>)

\* encoding/json decoding a JSON value into an `any` (UseNumber set); an
\* absent member leaves the field nil, and so does null.
DecodeAny(j) ==
    CASE j.k \in {"absent", "null"} -> Nil
      [] j.k = "string" -> GoValue("string", j.v)
      [] j.k = "number" -> GoValue("Number", j.v)
      [] j.k = "bool" -> GoValue("bool", j.v)
      [] j.k = "array" -> GoValue("slice", j.v)
      [] j.k = "object" -> GoValue("map", j.v)

\* encoding/json marshalling the content of an `any`.
MarshalAny(g) ==
    CASE g.t = "nil" -> JNull
      [] g.t = "string" -> JSON("string", g.v)
      [] g.t \in {"Number", "uint64"} -> JSON("number", g.v)
      [] g.t = "bool" -> JSON("bool", g.v)
      [] g.t = "slice" -> JSON("array", g.v)
      [] g.t = "map" -> JSON("object", g.v)

\* reflect.Type.Kind() and reflect.Type.Name() of a dynamic type:
\* json.Number is `type Number string`.
Kind(t) ==
    CASE t \in {"string", "Number"} -> "String"
      [] t = "bool" -> "Bool"
      [] t = "slice" -> "Slice"
      [] t = "map" -> "Map"
      [] t = "uint64" -> "Uint64"

TypeName(t) == IF t \in {"slice", "map"} THEN "" ELSE t

\* strings.Contains(s, c) for a one-character c.
Contains(s, c) == \E i \in 1..Len(s) : s[i] = c

\* -------------------------------------------------------- request, response
\* The params member once decoded: nil, a []any, a map[string]any, or a scalar.
\* list holds the elements of a slice; map holds, for each name, the value
\* under it or Missing.
Missing == GoValue("missing", <<>>)

ParamNames == {"block_id", "index"}

NoMap == [n \in ParamNames |-> Missing]

Params(t, list, map) == [t |-> t, list |-> list, map |-> map]

NilParams == Params("nil", <<>>, NoMap)

\* type request struct
Request(version, method, params, id) ==
    [Version |-> version, Method |-> method, Params |-> params, ID |-> id]

\* type Error struct; nil marks the nil *Error. Data is an `any` holding nil
\* or a string.
NoErrData == [t |-> "nil", s |-> ""]
StrData(s) == [t |-> "string", s |-> s]

Error(code, message, data) ==
    [nil |-> FALSE, Code |-> code, Message |-> message, Data |-> data]

NilError == [nil |-> TRUE, Code |-> 0, Message |-> "", Data |-> NoErrData]

\* type response struct
Response(result, error, id) ==
    [Version |-> "2.0", Result |-> result, Error |-> error, ID |-> id]

\* A *response: nil, or a pointer to val.
NilRes == [nil |-> TRUE, val |-> Response(Nil, NilError, Nil)]
Ptr(res) == [nil |-> FALSE, val |-> res]

rpcErr(code, data) ==
    CASE code = InvalidJSON -> Error(InvalidJSON, "Parse error", data)
      [] code = InvalidRequest -> Error(InvalidRequest, "Invalid Request", data)
      [] code = MethodNotFound -> Error(MethodNotFound, "Method Not Found", data)
      [] code = InvalidParams -> Error(InvalidParams, "Invalid Params", data)
      [] OTHER -> Error(InternalError, "Internal Error", data)

\* The request object as it stands in the text: jsonrpc and method are "" when
\* absent; params is absent, null, a scalar, an array (list) or an object (map,
\* JAbsent under the names the object does not have).
RawParams(k, list, map) == [k |-> k, list |-> list, map |-> map]

NoRawMap == [n \in ParamNames |-> JAbsent]

RawRequest(jsonrpc, method, params, id) ==
    [jsonrpc |-> jsonrpc, method |-> method, params |-> params, id |-> id]

DecodeParams(p) ==
    CASE p.k \in {"absent", "null"} -> NilParams
      [] p.k = "scalar" -> Params("string", <<>>, NoMap)
      [] p.k = "array" ->
            Params("slice", [i \in 1..Len(p.list) |-> DecodeAny(p.list[i])], NoMap)
      [] p.k = "object" ->
            Params("map", <<>>,
                   [n \in ParamNames |->
                       IF p.map[n] = JAbsent THEN Missing ELSE DecodeAny(p.map[n])])

\* json.Decoder.Decode of a request object into a request struct.
Decode(raw) ==
    Request(raw.jsonrpc, raw.method, DecodeParams(raw.params), DecodeAny(raw.id))

\* request.isSane: the error message, or "" for a nil error.
isSane(r) ==
    IF r.Version # "2.0" THEN "unsupported RPC request version"
    ELSE IF r.Method = "" THEN "no method specified"
    ELSE IF r.Params.t # "nil" /\ Kind(r.Params.t) # "Slice" /\ Kind(r.Params.t) # "Map"
        THEN "params should be an array or an object"
    ELSE IF r.ID.t # "nil"
            /\ LET floating == TypeName(r.ID.t) = "Number" /\ Contains(r.ID.v, ".")
               IN  (Kind(r.ID.t) # "String" /\ TypeName(r.ID.t) # "Number") \/ floating
        THEN ErrInvalidID
    ELSE ""

\* json.Marshal of a response: Result and Error are omitempty, ID is not.
\* has is the set of optional members present in the object.
MarshalError(e) ==
    [code |-> e.Code, message |-> e.Message,
     hasData |-> e.Data.t # "nil", data |-> e.Data.s]

MarshalResponse(res) ==
    [jsonrpc |-> res.Version,
     has |-> (IF res.Result.t # "nil" THEN {"result"} ELSE {})
                \cup (IF ~res.Error.nil THEN {"error"} ELSE {}),
     result |-> MarshalAny(res.Result),
     error |-> MarshalError(res.Error),
     id |-> MarshalAny(res.ID)]

\* ------------------------------------------------------------------ methods
\* type Parameter struct
Parameter(name, optional) == [Name |-> name, Optional |-> optional]

\* A handler as reflect sees it: whether it is a func, the types of its inputs
\* and outputs, and (body) which function it is.
Handler(kind, in, outs, body) == [kind |-> kind, in |-> in, outs |-> outs, body |-> body]

\* type Method struct
Method(name, params, handler) == [Name |-> name, Params |-> params, Handler |-> handler]

NumIn(h) == Len(h.in)
NumOut(h) == Len(h.outs)

\* The zero value of a handler parameter type: reflect.New(t).Elem().
Zero(t) == IF t = "string" THEN GoValue("string", <<>>) ELSE GoValue("uint64", <<"0">>)

\* handlerParamValue: the value is marshalled to JSON again and unmarshalled
\* into a new value of type t. null leaves the zero value; a JSON string fits
\* a string and an unsigned integer literal fits a uint64.
handlerParamValue(param, t) ==
    CASE param.t = "nil" -> [err |-> "", v |-> Zero(t)]
      [] param.t = "string" /\ t = "string" -> [err |-> "", v |-> GoValue("string", param.v)]
      [] param.t = "Number" /\ t = "uint64"
            /\ ~Contains(param.v, ".") /\ ~Contains(param.v, "e") /\ ~Contains(param.v, "-") ->
            [err |-> "", v |-> GoValue("uint64", param.v)]
      [] OTHER -> [err |-> "json: cannot unmarshal into Go value", v |-> Nil]

\* The least index of a sequence of outcomes whose err is set, 0 if none.
FirstErr(vals) ==
    IF \E i \in 1..Len(vals) : vals[i].err # ""
    THEN CHOOSE i \in 1..Len(vals) :
            vals[i].err # "" /\ \A j \in 1..(i - 1) : vals[j].err = ""
    ELSE 0

\* The arguments of a list of outcomes, or the first error among them.
Collected(vals) ==
    IF FirstErr(vals) # 0
    THEN [args |-> <<>>, err |-> vals[FirstErr(vals)].err]
    ELSE [args |-> [i \in 1..Len(vals) |-> vals[i].v], err |-> ""]

\* A positional binding that pads a short list with zero values, where
\* buildArguments refuses every list whose length is not the arity.
buildPositionalPadded(paramsList, handler) ==
    IF Len(paramsList) > NumIn(handler)
    THEN [args |-> <<>>, err |-> "missing/unexpected params in list"]
    ELSE Collected([i \in 1..NumIn(handler) |->
                        IF i <= Len(paramsList)
                        THEN handlerParamValue(paramsList[i], handler.in[i])
                        ELSE [err |-> "", v |-> Zero(handler.in[i])]])

\* buildArguments for a params array.
buildPositional(paramsList, handler) ==
    IF Len(paramsList) # NumIn(handler)
    THEN [args |-> <<>>, err |-> "missing/unexpected params in list"]
    ELSE Collected([i \in 1..Len(paramsList) |->
                        handlerParamValue(paramsList[i], handler.in[i])])

\* A named binding that refuses every missing name, optional or not.
buildNamedAllRequired(paramsMap, handler, configuredParams) ==
    Collected([i \in 1..Len(configuredParams) |->
                    IF paramsMap[configuredParams[i].Name] # Missing
                    THEN handlerParamValue(paramsMap[configuredParams[i].Name], handler.in[i])
                    ELSE [err |-> "missing non-optional param", v |-> Nil]])

\* A named binding that takes the names in the reverse of the configured order.
buildNamedReversed(paramsMap, handler, configuredParams) ==
    Collected([i \in 1..Len(configuredParams) |->
                    IF paramsMap[configuredParams[Len(configuredParams) + 1 - i].Name] # Missing
                    THEN handlerParamValue(
                            paramsMap[configuredParams[Len(configuredParams) + 1 - i].Name],
                            handler.in[i])
                    ELSE IF configuredParams[Len(configuredParams) + 1 - i].Optional
                    THEN [err |-> "", v |-> Zero(handler.in[i])]
                    ELSE [err |-> "missing non-optional param", v |-> Nil]])

\* buildArguments for a params object.
buildNamed(paramsMap, handler, configuredParams) ==
    Collected([i \in 1..Len(configuredParams) |->
                    IF paramsMap[configuredParams[i].Name] # Missing
                    THEN handlerParamValue(paramsMap[configuredParams[i].Name], handler.in[i])
                    ELSE IF configuredParams[i].Optional
                    THEN [err |-> "", v |-> Zero(handler.in[i])]
                    ELSE [err |-> "missing non-optional param", v |-> Nil]])

buildArguments(params, handler, configuredParams) ==
    CASE params.t = "nil" -> [args |-> <<>>, err |-> ""]
      [] Kind(params.t) = "Slice" -> buildPositional(params.list, handler)
      [] Kind(params.t) = "Map" -> buildNamed(params.map, handler, configuredParams)
      [] OTHER -> [args |-> <<>>, err |-> "impossible param type: check request.isSane"]

\* What each handler function returns for its arguments: the pair (any, *Error).
HandlerBody(body, args) ==
    CASE body = "ChainID" -> <<GoValue("string", <<"S", "N">>), NilError>>
      [] body = "BlockWithTxs" -> <<args[1], NilError>>
      [] body = "TransactionByBlockIDAndIndex" ->
            IF args[2].v = <<"0">>
            THEN <<Nil, NilError>>
            ELSE <<Nil, Error(27, "Invalid transaction index in a block", NoErrData)>>

\* reflect.Value.Call: it panics when the number of arguments is not the
\* function's number of inputs.
Call(handler, args) ==
    IF Len(args) # NumIn(handler)
    THEN [panic |-> TRUE, tuple |-> <<Nil, NilError>>]
    ELSE [panic |-> FALSE, tuple |-> HandlerBody(handler.body, args)]

Invocation(name, args, tuple) == [method |-> name, args |-> args, ret |-> tuple]

\* Server.handleRequest: the *response, the error message ("" for nil),
\* whether the call panicked, and the handler invocations it made.
Handled(res, err, panic, invoked) ==
    [res |-> res, err |-> err, panic |-> panic, invoked |-> invoked]

\* A handleRequest that wraps the handler's error in an internal error instead
\* of returning it as it is.
handleCalledWrapping(req, args, called) ==
    IF called.panic THEN Handled(NilRes, "", TRUE, <<>>)
    ELSE IF req.ID.t = "nil"
    THEN Handled(NilRes, "", FALSE, <<Invocation(req.Method, args, called.tuple)>>)
    ELSE IF ~called.tuple[2].nil
    THEN Handled(Ptr(Response(Nil, rpcErr(InternalError, StrData(called.tuple[2].Message)),
                              req.ID)),
                 "", FALSE, <<Invocation(req.Method, args, called.tuple)>>)
    ELSE Handled(Ptr(Response(called.tuple[1], NilError, req.ID)), "", FALSE,
                 <<Invocation(req.Method, args, called.tuple)>>)

\* handleRequest once the handler has been called (called is what
\* reflect.Value.Call gave) with args.
handleCalled(req, args, called) ==
    IF called.panic THEN Handled(NilRes, "", TRUE, <<>>)
    ELSE IF req.ID.t = "nil"
    THEN Handled(NilRes, "", FALSE, <<Invocation(req.Method, args, called.tuple)>>)
    ELSE IF ~called.tuple[2].nil
    THEN Handled(Ptr(Response(Nil, called.tuple[2], req.ID)), "", FALSE,
                 <<Invocation(req.Method, args, called.tuple)>>)
    ELSE Handled(Ptr(Response(called.tuple[1], NilError, req.ID)), "", FALSE,
                 <<Invocation(req.Method, args, called.tuple)>>)

\* handleRequest once the arguments have been built (built is what
\* buildArguments gave).
handleBuilt(req, calledMethod, built) ==
    IF built.err # ""
    THEN Handled(Ptr(Response(Nil, rpcErr(InvalidParams, StrData(built.err)), req.ID)),
                 "", FALSE, <<>>)
    ELSE handleCalled(req, built.args, Call(calledMethod.Handler, built.args))

\* handleRequest once the method has been found.
handleFound(req, calledMethod) ==
    handleBuilt(req, calledMethod,
                buildArguments(req.Params, calledMethod.Handler, calledMethod.Params))

\* A handleRequest that answers an unknown method without the request's id.
handleRequestDroppingId(s, req) ==
    IF isSane(req) # "" THEN Handled(NilRes, isSane(req), FALSE, <<>>)
    ELSE IF req.Method \notin DOMAIN s
    THEN Handled(Ptr(Response(Nil, rpcErr(MethodNotFound, NoErrData), Nil)),
                 "", FALSE, <<>>)
    ELSE handleFound(req, s[req.Method])

handleRequest(s, req) ==
    IF isSane(req) # "" THEN Handled(NilRes, isSane(req), FALSE, <<>>)
    ELSE IF req.Method \notin DOMAIN s
    THEN Handled(Ptr(Response(Nil, rpcErr(MethodNotFound, NoErrData), req.ID)),
                 "", FALSE, <<>>)
    ELSE handleFound(req, s[req.Method])

\* -------------------------------------------------------------- HandleReader
\* The bytes given to Handle: head is the text up to and including its first
\* non-whitespace byte (all that isBatch reads); form says what the text is:
\* an "object" (req), an "array" (elems), another JSON "value", or "garbage"
\* that is not JSON. An element of an array is an object (req) or another value.
Element(form, req) == [form |-> form, req |-> req]

Data(head, form, req, elems) == [head |-> head, form |-> form, req |-> req, elems |-> elems]

NoRequest == RawRequest("", "", RawParams("absent", <<>>, NoRawMap), JAbsent)

\* No call in progress.
NoData == Data(<<>>, "none", NoRequest, <<>>)

RECURSIVE isBatch(_)
isBatch(bytes) ==
    IF bytes = <<>> THEN FALSE
    ELSE IF bytes[1] \in {" ", "\t", "\r", "\n"} THEN isBatch(Tail(bytes))
    ELSE bytes[1] = "["

\* What Handle returned: no bytes ("none"), one response object ("object"),
\* an array of them ("array"); "panic" when the call did not return; "idle"
\* when no call was made.
Out(kind, objs) == [kind |-> kind, objs |-> objs]

Idle == Out("idle", <<>>)

Returned(o, rs, cs) == [out |-> o, resObjs |-> rs, calls |-> cs]

\* The invocations of the idx-th request of a call.
Tagged(invoked, idx) ==
    [j \in 1..Len(invoked) |->
        [idx |-> idx, method |-> invoked[j].method, args |-> invoked[j].args,
         ret |-> invoked[j].ret]]

\* A refusal that never carries the request's id.
RefusedWithoutId(req, handleErr) ==
    Response(Nil, rpcErr(InvalidRequest, StrData(handleErr)), Nil)

\* The response for a request that handleRequest refused with handleErr.
Refused(req, handleErr) ==
    Response(Nil, rpcErr(InvalidRequest, StrData(handleErr)),
             IF handleErr # ErrInvalidID THEN req.ID ELSE Nil)

\* The response that answers text that does not decode.
ParseError(code) == Response(Nil, rpcErr(code, StrData("json: cannot decode")), Nil)

\* HandleReader for a single request once handleRequest has returned h.
singleHandled(req, h) ==
    IF h.panic THEN Returned(Out("panic", <<>>), <<>>, <<>>)
    ELSE IF h.err # ""
    THEN Returned(Out("object", <<MarshalResponse(Refused(req, h.err))>>),
                  <<Ptr(Refused(req, h.err))>>, <<>>)
    ELSE IF h.res.nil
    THEN Returned(Out("none", <<>>), <<h.res>>, Tagged(h.invoked, 1))
    ELSE Returned(Out("object", <<MarshalResponse(h.res.val)>>),
                  <<h.res>>, Tagged(h.invoked, 1))

\* HandleReader, the branch of a single request.
handleSingle(s, data) ==
    IF data.form # "object"
    THEN Returned(Out("object", <<MarshalResponse(ParseError(InvalidJSON))>>),
                  <<Ptr(ParseError(InvalidJSON))>>, <<>>)
    ELSE singleHandled(Decode(data.req), handleRequest(s, Decode(data.req)))

\* The resObject of a batch element once handleRequest has returned h.
elementHandled(req, h) ==
    IF h.err # "" THEN Handled(Ptr(Refused(req, h.err)), "", FALSE, <<>>) ELSE h

\* The body of the batch loop for one element: its resObject.
batchElement(s, elem) ==
    IF elem.form # "object"
    THEN Handled(Ptr(ParseError(InvalidRequest)), "", FALSE, <<>>)
    ELSE elementHandled(Decode(elem.req), handleRequest(s, Decode(elem.req)))

\* The batch loop from element i on; rs and cs are the resObjects and the
\* invocations so far, h the outcome of element i. A panic ends the call.
RECURSIVE batchLoop(_, _, _, _, _)
RECURSIVE batchStep(_, _, _, _, _, _)
\* A loop step that records the invocations of an element before those of
\* the elements that came earlier.
batchStepNewestFirst(s, elems, i, rs, cs, h) ==
    IF h.panic THEN [panic |-> TRUE, resObjs |-> rs, calls |-> cs]
    ELSE batchLoop(s, elems, i + 1, Append(rs, h.res), Tagged(h.invoked, i) \o cs)

batchStep(s, elems, i, rs, cs, h) ==
    IF h.panic THEN [panic |-> TRUE, resObjs |-> rs, calls |-> cs]
    ELSE batchLoop(s, elems, i + 1, Append(rs, h.res), cs \o Tagged(h.invoked, i))

batchLoop(s, elems, i, rs, cs) ==
    IF i > Len(elems) THEN [panic |-> FALSE, resObjs |-> rs, calls |-> cs]
    ELSE batchStep(s, elems, i, rs, cs, batchElement(s, elems[i]))

\* batchRes: the marshalled non-nil resObjects, in order.
RECURSIVE batchRes(_)
batchRes(rs) ==
    IF rs = <<>> THEN <<>>
    ELSE (IF Head(rs).nil THEN <<>> ELSE <<MarshalResponse(Head(rs).val)>>)
            \o batchRes(Tail(rs))

\* HandleReader for a batch once the loop has ended with l.
batchHandled(l) ==
    IF l.panic THEN Returned(Out("panic", <<>>), l.resObjs, l.calls)
    ELSE IF Len(batchRes(l.resObjs)) = 0
    THEN Returned(Out("none", <<>>), l.resObjs, l.calls)
    ELSE Returned(Out("array", batchRes(l.resObjs)), l.resObjs, l.calls)

\* A batch branch that runs the loop on an empty array too.
handleBatchUnchecked(s, data) ==
    IF data.form # "array"
    THEN Returned(Out("object", <<MarshalResponse(ParseError(InvalidJSON))>>), <<>>, <<>>)
    ELSE batchHandled(batchLoop(s, data.elems, 1, <<>>, <<>>))

\* HandleReader, the branch of a batch.
handleBatch(s, data) ==
    IF data.form # "array"
    THEN Returned(Out("object", <<MarshalResponse(ParseError(InvalidJSON))>>), <<>>, <<>>)
    ELSE IF Len(data.elems) = 0
    THEN Returned(Out("object",
                      <<MarshalResponse(Response(Nil, rpcErr(InvalidRequest, StrData("empty batch")), Nil))>>),
                  <<>>, <<>>)
    ELSE batchHandled(batchLoop(s, data.elems, 1, <<>>, <<>>))

HandleReader(s, data) ==
    IF ~isBatch(data.head) THEN handleSingle(s, data) ELSE handleBatch(s, data)

\* A RegisterMethod that does not compare the handler's inputs with the
\* parameter names.
registerErrorAnyArity(method) ==
    IF method.Handler.kind # "func" THEN "handler must be a function"
    ELSE IF NumOut(method.Handler) # 2 THEN "handler must return 2 values"
    ELSE IF method.Handler.outs[2] # "*Error"
    THEN "second return value must be a *jsonrpc.Error"
    ELSE ""

\* Server.RegisterMethod: the error message, "" for nil.
registerError(method) ==
    IF method.Handler.kind # "func" THEN "handler must be a function"
    ELSE IF NumIn(method.Handler) # Len(method.Params)
    THEN "number of function params and param names must match"
    ELSE IF NumOut(method.Handler) # 2 THEN "handler must return 2 values"
    ELSE IF method.Handler.outs[2] # "*Error"
    THEN "second return value must be a *jsonrpc.Error"
    ELSE ""

Registered(s, method) ==
    [n \in DOMAIN s \cup {method.Name} |-> IF n = method.Name THEN method ELSE s[n]]

\* ------------------------------------------------------------------- inputs
FuncOuts == <<"any", "*Error">>

ChainID ==
    Method("starknet_chainId", <<>>, Handler("func", <<>>, FuncOuts, "ChainID"))

BlockWithTxs ==
    Method("starknet_getBlockWithTxs", <<Parameter("block_id", FALSE)>>,
           Handler("func", <<"string">>, FuncOuts, "BlockWithTxs"))

TransactionByBlockIDAndIndex ==
    Method("starknet_getTransactionByBlockIdAndIndex",
           <<Parameter("block_id", FALSE), Parameter("index", TRUE)>>,
           Handler("func", <<"string", "uint64">>, FuncOuts, "TransactionByBlockIDAndIndex"))

\* Methods RegisterMethod accepts.
GoodMethods == {ChainID, BlockWithTxs, TransactionByBlockIDAndIndex}

\* Methods RegisterMethod refuses: a handler that is no function, one whose
\* inputs are not as many as the parameters, one with a single output, one
\* whose second output is not a *Error.
BadMethods ==
    {Method("starknet_chainId", <<>>, Handler("string", <<>>, <<>>, "")),
     Method("starknet_getBlockWithTxs", <<Parameter("block_id", FALSE)>>,
            Handler("func", <<>>, FuncOuts, "ChainID")),
     Method("starknet_blockNumber", <<>>, Handler("func", <<>>, <<"any">>, "ChainID")),
     Method("starknet_blockNumber", <<>>, Handler("func", <<>>, <<"any", "error">>, "ChainID"))}

Methods == GoodMethods \cup BadMethods

\* The method names of requests: none, and the names above
\* (starknet_blockNumber is never registered).
RequestMethods == {""} \cup {m.Name : m \in Methods}

Versions == {"2.0", "1.0"}

IdX == JSON("string", <<"x">>)
Id1 == JSON("number", <<"1">>)
IdFloat == JSON("number", <<"1", ".", "5">>)
IdExp == JSON("number", <<"1", "e", "-", "1">>)

RawIDs == {JAbsent, JNull, IdX, Id1, IdFloat, IdExp, JSON("bool", <<"true">>), JSON("array", <<>>)}

ValS == JSON("string", <<"0", "x", "a">>)
ValN == JSON("number", <<"7">>)

\* The values of params elements and members.
JVals == {ValS, ValN}

NoParams == RawParams("absent", <<>>, NoRawMap)

RawParamsSet ==
    {NoParams, RawParams("null", <<>>, NoRawMap), RawParams("scalar", <<>>, NoRawMap)}
    \cup {RawParams("array", l, NoRawMap) : l \in UNION {[1..k -> JVals] : k \in 0..MaxParams}}
    \cup {RawParams("object", <<>>, m) : m \in [ParamNames -> JVals \cup {JAbsent}]}

RawRequests ==
    {RawRequest(v, m, p, i) : v \in Versions, m \in RequestMethods, p \in RawParamsSet, i \in RawIDs}

Elements == {Element("value", NoRequest)} \cup {Element("object", r) : r \in RawRequests}

\* The elements of the batches of more than one element.
BatchElements ==
    {Element("value", NoRequest)}
    \cup {Element("object", r) : r \in
            {RawRequest("1.0", "starknet_chainId", NoParams, IdX),
             RawRequest("2.0", "starknet_chainId", NoParams, JAbsent),
             RawRequest("2.0", "starknet_chainId", NoParams, IdX),
             RawRequest("2.0", "starknet_chainId", NoParams, Id1),
             RawRequest("2.0", "starknet_chainId", NoParams, IdFloat),
             RawRequest("2.0", "starknet_blockNumber", NoParams, Id1),
             RawRequest("2.0", "starknet_blockNumber", NoParams, JAbsent),
             RawRequest("2.0", "starknet_getBlockWithTxs",
                        RawParams("array", <<ValS>>, NoRawMap), IdX),
             RawRequest("2.0", "starknet_getBlockWithTxs", NoParams, Id1),
             RawRequest("2.0", "starknet_getTransactionByBlockIdAndIndex",
                        RawParams("object", <<>>, [n \in ParamNames |->
                            IF n = "block_id" THEN ValS ELSE ValN]), Id1)}}

\* The elements of the batches of MaxBatch elements: a notification, a call
\* with an id, an unknown method, a call without its params, a call by name.
LongBatchElements ==
    {Element("object", r) : r \in
        {RawRequest("2.0", "starknet_chainId", NoParams, JAbsent),
         RawRequest("2.0", "starknet_chainId", NoParams, IdX),
         RawRequest("2.0", "starknet_blockNumber", NoParams, Id1),
         RawRequest("2.0", "starknet_getBlockWithTxs", NoParams, Id1),
         RawRequest("2.0", "starknet_getTransactionByBlockIdAndIndex",
                    RawParams("object", <<>>, [n \in ParamNames |->
                        IF n = "block_id" THEN ValS ELSE ValN]), Id1)}}

Singles ==
    {Data(<<"{">>, "object", r, <<>>) : r \in RawRequests}
    \cup {Data(<<" ", "\n", "{">>, "object", e.req, <<>>) :
            e \in {b \in BatchElements : b.form = "object"}}
    \cup {Data(<<"1">>, "value", NoRequest, <<>>), Data(<<"x">>, "garbage", NoRequest, <<>>),
          Data(<<>>, "garbage", NoRequest, <<>>), Data(<<" ">>, "garbage", NoRequest, <<>>)}

Batches ==
    {Data(<<"[">>, "garbage", NoRequest, <<>>)}
    \cup {Data(<<"[">>, "array", NoRequest, l) : l \in {<<>>} \cup {<<e>> : e \in Elements}}
    \cup {Data(<<"[">>, "array", NoRequest, l) :
            l \in UNION {[1..k -> BatchElements] : k \in 2..(MaxBatch - 1)}}
    \cup {Data(<<"[">>, "array", NoRequest, l) : l \in [1..MaxBatch -> LongBatchElements]}
    \cup {Data(<<"\t", "\r", "[">>, "array", NoRequest, l) :
            l \in {<<>>} \cup {<<e>> : e \in BatchElements}}

Inputs == Singles \cup Batches

\* The requests of an input, in order: the one of a single request, the
\* elements of a batch.
Requests(data) ==
    IF data.form = "array" THEN data.elems
    ELSE IF data.form = "none" THEN <<>>
    ELSE <<Element(data.form, data.req)>>

\* ----------------------------------------------------------- field elements
\* A field element is a non-empty sequence of integers: <<n>> is the element
\* n, and a hash is the bracketed text of its two inputs, so that two hashes
\* are equal only if their inputs are (Pedersen taken as collision free).
\* The nil *felt.Felt is the empty sequence.
Felt(n) == <<n>>

NilFelt == <<>>

IsZero(f) == f = Felt(0)
IsOne(f) == f = Felt(1)

\* crypto.Pedersen(a, b)
Pedersen(a, b) == <<-1>> \o a \o <<-2>> \o b \o <<-3>>

\* crypto.PedersenArray(elems...): the left fold from 0, then the length.
RECURSIVE PedersenFold(_, _)
PedersenFold(acc, elems) ==
    IF elems = <<>> THEN acc
    ELSE PedersenFold(Pedersen(acc, Head(elems)), Tail(elems))

PedersenArray(elems) == Pedersen(PedersenFold(Felt(0), elems), Felt(Len(elems)))

\* utils.Network.ChainID()
Networks == {"MAINNET", "GOERLI"}

ChainIDOf(n) == IF n = "MAINNET" THEN Felt(101) ELSE Felt(102)

invokeFelt == Felt(201)
declareFelt == Felt(202)
l1HandlerFelt == Felt(203)
deployAccountFelt == Felt(204)

\* ------------------------------------------------------------ transactions
\* A Transaction: type names the struct behind the interface; a field the
\* struct does not have is NilFelt or <<>>.
Hashed(hash, err) == [hash |-> hash, err |-> err]

errInvalidTransactionVersion(t) == "invalid Transaction version"

\* An invokeTransactionHash that hashes every version but 0 as version 1.
invokeTransactionHashAnyVersion(i, n) ==
    CASE IsZero(i.Version) -> Hashed(i.TransactionHash, "")
      [] OTHER ->
            Hashed(PedersenArray(<<invokeFelt, i.Version, i.SenderAddress, Felt(0),
                                   PedersenArray(i.CallData), i.MaxFee, ChainIDOf(n),
                                   i.Nonce>>), "")

invokeTransactionHash(i, n) ==
    CASE IsZero(i.Version) -> Hashed(i.TransactionHash, "")
      [] IsOne(i.Version) ->
            Hashed(PedersenArray(<<invokeFelt, i.Version, i.SenderAddress, Felt(0),
                                   PedersenArray(i.CallData), i.MaxFee, ChainIDOf(n),
                                   i.Nonce>>), "")
      [] OTHER -> Hashed(NilFelt, errInvalidTransactionVersion(i))

\* A declareTransactionHash that hashes version 2 as version 1, without the
\* compiled class hash.
declareTransactionHashShort(d, n) ==
    CASE IsZero(d.Version) -> Hashed(d.TransactionHash, "")
      [] IsOne(d.Version) \/ d.Version = Felt(2) ->
            Hashed(PedersenArray(<<declareFelt, d.Version, d.SenderAddress, Felt(0),
                                   PedersenArray(<<d.ClassHash>>), d.MaxFee, ChainIDOf(n),
                                   d.Nonce>>), "")
      [] OTHER -> Hashed(NilFelt, errInvalidTransactionVersion(d))

declareTransactionHash(d, n) ==
    CASE IsZero(d.Version) -> Hashed(d.TransactionHash, "")
      [] IsOne(d.Version) ->
            Hashed(PedersenArray(<<declareFelt, d.Version, d.SenderAddress, Felt(0),
                                   PedersenArray(<<d.ClassHash>>), d.MaxFee, ChainIDOf(n),
                                   d.Nonce>>), "")
      [] d.Version = Felt(2) ->
            Hashed(PedersenArray(<<declareFelt, d.Version, d.SenderAddress, Felt(0),
                                   PedersenArray(<<d.ClassHash>>), d.MaxFee, ChainIDOf(n),
                                   d.Nonce, d.CompiledClassHash>>), "")
      [] OTHER -> Hashed(NilFelt, errInvalidTransactionVersion(d))

\* An l1HandlerTransactionHash that hashes a version 0 transaction whether or
\* not it has a nonce.
l1HandlerTransactionHashAlways(l, n) ==
    CASE IsZero(l.Version) ->
            Hashed(PedersenArray(<<l1HandlerFelt, l.Version, l.ContractAddress,
                                   l.EntryPointSelector, PedersenArray(l.CallData),
                                   Felt(0), ChainIDOf(n), l.Nonce>>), "")
      [] OTHER -> Hashed(NilFelt, errInvalidTransactionVersion(l))

l1HandlerTransactionHash(l, n) ==
    CASE IsZero(l.Version) ->
            IF l.Nonce = NilFelt THEN Hashed(l.TransactionHash, "")
            ELSE Hashed(PedersenArray(<<l1HandlerFelt, l.Version, l.ContractAddress,
                                        l.EntryPointSelector, PedersenArray(l.CallData),
                                        Felt(0), ChainIDOf(n), l.Nonce>>), "")
      [] OTHER -> Hashed(NilFelt, errInvalidTransactionVersion(l))

deployAccountTransactionHash(d, n) ==
    IF IsOne(d.Version)
    THEN Hashed(PedersenArray(<<deployAccountFelt, d.Version, d.ContractAddress, Felt(0),
                                PedersenArray(<<d.ClassHash, d.ContractAddressSalt>>
                                                \o d.ConstructorCallData),
                                d.MaxFee, ChainIDOf(n), d.Nonce>>), "")
    ELSE Hashed(NilFelt, errInvalidTransactionVersion(d))

transactionHash(transaction, n) ==
    CASE transaction.type = "Declare" -> declareTransactionHash(transaction, n)
      [] transaction.type = "Invoke" -> invokeTransactionHash(transaction, n)
      [] transaction.type = "Deploy" -> Hashed(transaction.TransactionHash, "")
      [] transaction.type = "L1Handler" -> l1HandlerTransactionHash(transaction, n)
      [] transaction.type = "DeployAccount" -> deployAccountTransactionHash(transaction, n)
      [] OTHER -> Hashed(NilFelt, "unknown transaction")

\* A *CantVerifyTransactionHashError without its next: nil marks the nil pointer.
CantVerify(t, hashFailure) == [nil |-> FALSE, t |-> t, hashFailure |-> hashFailure]

\* verifyTransactionHash once transactionHash has returned calculated.
verifyCalculated(t, calculated) ==
    IF calculated.err # "" THEN CantVerify(t, calculated.err)
    ELSE IF calculated.hash # t.TransactionHash THEN CantVerify(t, "")
    ELSE [nil |-> TRUE, t |-> t, hashFailure |-> ""]

verifyTransactionHash(t, n) == verifyCalculated(t, transactionHash(t, n))

\* err.next = head; head = err. The chain is the sequence of its entries from
\* the head: Unwrap of a chain is its tail, and nil is the empty chain.
\* A chain that grows at its end.
LinkedAtTail(err, head) == head \o <<[t |-> err.t, hashFailure |-> err.hashFailure]>>

Linked(err, head) == <<[t |-> err.t, hashFailure |-> err.hashFailure]>> \o head

\* The loop of verifyTransactions from transaction i on, head being the chain
\* so far and err what verifyTransactionHash gave for transaction i.
RECURSIVE verifyLoop(_, _, _, _)
RECURSIVE verifyStep(_, _, _, _, _)
\* A loop step that returns at the first failure.
verifyStepUntilFailure(list, n, i, head, err) ==
    IF ~err.nil THEN Linked(err, head) ELSE verifyLoop(list, n, i + 1, head)

verifyStep(list, n, i, head, err) ==
    verifyLoop(list, n, i + 1, IF ~err.nil THEN Linked(err, head) ELSE head)

verifyLoop(list, n, i, head) ==
    IF i > Len(list) THEN head
    ELSE verifyStep(list, n, i, head, verifyTransactionHash(list[i], n))

verifyTransactions(list, n) == verifyLoop(list, n, 1, <<>>)

\* CantVerifyTransactionHashError.Unwrap
Unwrap(e) == Tail(e)

\* The transactions given to the verifier. Apart from the type, the version,
\* the call data, the nonce and the declared hash, the fields are fixed.
Transaction(type, version, callData, nonce, hash) ==
    [type |-> type, TransactionHash |-> hash, Version |-> version,
     ContractAddress |-> Felt(6), SenderAddress |-> Felt(1),
     CallData |-> callData, ConstructorCallData |-> callData,
     MaxFee |-> Felt(3), Nonce |-> nonce, ClassHash |-> Felt(2),
     CompiledClassHash |-> Felt(5), EntryPointSelector |-> Felt(7),
     ContractAddressSalt |-> Felt(8), TransactionSignature |-> <<>>]

TransactionTypes == {"Invoke", "Declare", "Deploy", "L1Handler", "DeployAccount"}

TransactionVersions == {0, 1, 2, 3}

CallDataA == <<Felt(10)>>
CallDataB == <<Felt(11)>>

\* The hash transactionHash computes for a transaction of these fields, or
\* NilFelt when it computes none (it fails, or trusts the declared hash).
Recipe(type, version, callData, nonce, n) ==
    transactionHash(Transaction(type, version, callData, nonce, NilFelt), n).hash

\* The declared hashes: an arbitrary one, and the ones the recipe gives for
\* these fields or for the other call data, on either network.
DeclaredHashes(type, version, nonce) ==
    {Felt(9)} \cup
    ({Recipe(type, version, cd, nonce, n) : cd \in {CallDataA, CallDataB}, n \in Networks}
        \ {NilFelt})

\* Only an L1Handler transaction comes without a nonce.
Transactions ==
    {t \in UNION {{Transaction(ty, Felt(v), cd, no, h) :
                        h \in DeclaredHashes(ty, Felt(v), no)} :
                    ty \in TransactionTypes, v \in TransactionVersions,
                    cd \in {CallDataA, CallDataB}, no \in {Felt(4), NilFelt}} :
        t.Nonce = NilFelt => t.type = "L1Handler"}

\* The transactions of the lists of more than one transaction.
ListTransactions ==
    {Transaction("Invoke", Felt(1), CallDataA, Felt(4),
                 Recipe("Invoke", Felt(1), CallDataA, Felt(4), "MAINNET")),
     Transaction("Invoke", Felt(1), CallDataB, Felt(4),
                 Recipe("Invoke", Felt(1), CallDataA, Felt(4), "MAINNET")),
     Transaction("Invoke", Felt(0), CallDataA, Felt(4), Felt(9)),
     Transaction("Declare", Felt(2), CallDataA, Felt(4),
                 Recipe("Declare", Felt(2), CallDataA, Felt(4), "MAINNET")),
     Transaction("Declare", Felt(3), CallDataA, Felt(4), Felt(9)),
     Transaction("Deploy", Felt(0), CallDataA, Felt(4), Felt(9)),
     Transaction("DeployAccount", Felt(1), CallDataA, Felt(4), Felt(9)),
     Transaction("L1Handler", Felt(0), CallDataA, NilFelt, Felt(9))}

SigA == <<Felt(12), Felt(13)>>
SigB == <<Felt(14)>>

\* The transaction with the signature sig; only these structs have one.
Signed(t, sig) == [t EXCEPT !.TransactionSignature = sig]

SignedTransactions ==
    {Signed(t, SigA) : t \in {u \in Transactions : u.type \in {"Invoke", "Declare", "DeployAccount"}}}

TransactionLists ==
    {<<>>} \cup {<<t>> : t \in Transactions \cup SignedTransactions}
    \cup UNION {[1..k -> ListTransactions] : k \in 2..MaxTxs}

\* ------------------------------------------------------------- commitments
\* Transaction.Hash()
Hash(t) == t.TransactionHash

\* Transaction.Signature(): empty for the structs without a signature.
Signature(t) == IF t.type \in {"Deploy", "L1Handler"} THEN <<>> ELSE t.TransactionSignature

commitmentTrieHeight == 64

\* The trie RunOnTempTrie hands to its body: empty, of the given height. A
\* trie is the sequence of the puts made on it.
TempTrie(height) == [height |-> height, puts |-> <<>>]

\* trie.Put(key, value)
Put(trie, key, value) == [trie EXCEPT !.puts = Append(@, [key |-> key, value |-> value])]

\* The value the trie holds at key: that of the last put there.
Leaf(trie, key) ==
    trie.puts[CHOOSE i \in 1..Len(trie.puts) :
                /\ trie.puts[i].key = key
                /\ \A j \in (i + 1)..Len(trie.puts) : trie.puts[j].key # key].value

\* The keys the trie holds, as numbers.
Keys(trie) == {trie.puts[i].key[1] : i \in 1..Len(trie.puts)}

\* The leaves at the keys from k on, in key order.
RECURSIVE LeavesFrom(_, _)
LeavesFrom(trie, k) ==
    IF \A q \in Keys(trie) : q < k THEN <<>>
    ELSE IF k \in Keys(trie) THEN <<-4, k>> \o Leaf(trie, Felt(k)) \o LeavesFrom(trie, k + 1)
    ELSE LeavesFrom(trie, k + 1)

\* trie.Root(): zero for the empty trie, else a digest of the leaves.
Root(trie) == IF trie.puts = <<>> THEN Felt(0) ELSE <<-5>> \o LeavesFrom(trie, 0)

\* What a commitment function returns, with the trie as the body left it and
\* the number of puts made when the root was read (-1: never read).
Commitment(commitment, err, trie, rootAfter) ==
    [commitment |-> commitment, err |-> err, puts |-> trie.puts, rootAfter |-> rootAfter]

\* An end of the body that leaves commitment as it was declared.
rootReadUnassigned(trie, fail) ==
    IF fail = Len(trie.puts) + 1 /\ trie.puts # <<>>
    THEN Commitment(NilFelt, "root failed", trie, -1)
    ELSE Commitment(NilFelt, "", trie, Len(trie.puts))

\* The end of the body: trie.Root() and commitment = root. The put or root
\* numbered fail returns an error (0: none does); the root of an empty trie
\* reads no node and cannot fail.
rootRead(trie, fail) ==
    IF fail = Len(trie.puts) + 1 /\ trie.puts # <<>>
    THEN Commitment(NilFelt, "root failed", trie, -1)
    ELSE Commitment(Root(trie), "", trie, Len(trie.puts))

\* A signature hash that takes the signature of every variant.
signatureHashOfAny(transaction) == PedersenArray(Signature(transaction))

\* signatureHash of the loop of transactionCommitment.
signatureHash(transaction) ==
    IF transaction.type = "Invoke" THEN PedersenArray(Signature(transaction))
    ELSE PedersenArray(<<>>)

\* The loop of transactionCommitment from the transaction of index i on.
RECURSIVE transactionPuts(_, _, _, _)
transactionPuts(transactions, i, trie, fail) ==
    IF i >= Len(transactions) THEN rootRead(trie, fail)
    ELSE IF fail = i + 1 THEN Commitment(NilFelt, "put failed", trie, -1)
    ELSE transactionPuts(transactions, i + 1,
                         Put(trie, Felt(i),
                             Pedersen(Hash(transactions[i + 1]),
                                      signatureHash(transactions[i + 1]))),
                         fail)

\* return commitment, trie.RunOnTempTrie(...): the call is made before the
\* variable it assigns is read.
transactionCommitment(transactions, fail) ==
    transactionPuts(transactions, 0, TempTrie(commitmentTrieHeight), fail)

Event(from, keys, data) == [From |-> from, Keys |-> keys, Data |-> data]

TransactionReceipt(fee, events) == [Fee |-> fee, Events |-> events]

eventHash(event) ==
    PedersenArray(<<event.From, PedersenArray(event.Keys), PedersenArray(event.Data)>>)

\* The inner loop of eventCommitment over the events of one receipt from
\* event j on: the trie, the count and whether a put failed.
RECURSIVE eventPuts(_, _, _, _, _)
eventPuts(events, j, count, trie, fail) ==
    IF j > Len(events) THEN [trie |-> trie, count |-> count, failed |-> FALSE]
    ELSE IF fail = Len(trie.puts) + 1 THEN [trie |-> trie, count |-> count, failed |-> TRUE]
    ELSE eventPuts(events, j + 1, count + 1, Put(trie, Felt(count), eventHash(events[j])), fail)

\* The outer loop of eventCommitment from receipt r on; inner is what the
\* inner loop left for receipt r.
RECURSIVE receiptLoop(_, _, _, _, _)
RECURSIVE receiptStep(_, _, _, _)
\* A step that starts the count of every receipt at 0.
receiptStepRecounting(receipts, r, inner, fail) ==
    IF inner.failed THEN Commitment(NilFelt, "put failed", inner.trie, -1)
    ELSE receiptLoop(receipts, r + 1, 0, inner.trie, fail)

receiptStep(receipts, r, inner, fail) ==
    IF inner.failed THEN Commitment(NilFelt, "put failed", inner.trie, -1)
    ELSE receiptLoop(receipts, r + 1, inner.count, inner.trie, fail)

receiptLoop(receipts, r, count, trie, fail) ==
    IF r > Len(receipts) THEN rootRead(trie, fail)
    ELSE receiptStep(receipts, r, eventPuts(receipts[r].Events, 1, count, trie, fail), fail)

eventCommitment(receipts, fail) ==
    receiptLoop(receipts, 1, 0, TempTrie(commitmentTrieHeight), fail)

\* The transactions of the committed lists: their hashes differ, their
\* signatures vary.
CommitTransactions ==
    {Signed(Transaction("Invoke", Felt(1), CallDataA, Felt(4), Felt(21)), <<>>),
     Signed(Transaction("Invoke", Felt(1), CallDataA, Felt(4), Felt(21)), SigA),
     Signed(Transaction("Invoke", Felt(1), CallDataA, Felt(4), Felt(22)), SigB),
     Signed(Transaction("Declare", Felt(2), CallDataA, Felt(4), Felt(23)), <<>>),
     Signed(Transaction("Declare", Felt(2), CallDataA, Felt(4), Felt(23)), SigA),
     Signed(Transaction("DeployAccount", Felt(1), CallDataA, Felt(4), Felt(24)), SigB),
     Transaction("L1Handler", Felt(0), CallDataA, NilFelt, Felt(25))}

CommitLists == UNION {[1..k -> CommitTransactions] : k \in 0..MaxTxs}

EventA == Event(Felt(31), <<Felt(32)>>, <<Felt(33), Felt(34)>>)
EventB == Event(Felt(31), <<Felt(32), Felt(33)>>, <<Felt(34)>>)

Receipts ==
    {TransactionReceipt(Felt(3), evs) :
        evs \in UNION {[1..k -> {EventA, EventB}] : k \in 0..MaxEvents}}
    \cup {TransactionReceipt(Felt(4), <<EventA>>)}

ReceiptLists == UNION {[1..k -> Receipts] : k \in 0..MaxReceipts}

\* The put or root read that fails: none, the first, the second.
Failures == {0, 1, 2}

\* ------------------------------------------------------------------ actions
NoTxs == <<>>

\* No RegisterMethod call in progress.
NoRegistration == [method |-> Method("", <<>>, Handler("", <<>>, <<>>, "")), err |-> ""]

InitServer ==
    /\ methods = [n \in {} |-> ChainID]
    /\ input = NoData
    /\ out = Idle
    /\ resObjs = <<>>
    /\ calls = <<>>
    /\ registration = NoRegistration

InitCore ==
    /\ txs = NoTxs
    /\ network = "none"
    /\ verdict = <<>>

\* No commitment call in progress.
NoCommitting == [kind |-> "none", transactions |-> <<>>, receipts |-> <<>>, fail |-> 0]
NoCommitment == Commitment(NilFelt, "", TempTrie(commitmentTrieHeight), -1)

InitCommit ==
    /\ committing = NoCommitting
    /\ committed = NoCommitment

\* An error value: nil, or the error that from returned.
NilErr == [nil |-> TRUE, from |-> ""]
ErrOf(from) == [nil |-> FALSE, from |-> from]

\* The services of a node: the synchronizer and the HTTP server, and pprof
\* when the configuration asks for it.
ServicesOf(cfg) ==
    IF cfg.Pprof THEN <<"synchronizer", "http", "pprof">> ELSE <<"synchronizer", "http">>

Configs == [Pprof : BOOLEAN]

\* A goroutine of wg.Go: at "run" its service runs, at "assign" Run has
\* returned result, at "check" err has been assigned, at "done" it is over.
Goroutine(pc, result) == [pc |-> pc, result |-> result]

\* A Node: where its Run is ("none" before New), its configuration, its db
\* ("none" until pebble.New has opened it) and the Close calls made on it.
NodeAt(pc, cfg, db, closes) == [pc |-> pc, cfg |-> cfg, db |-> db, closes |-> closes]

InitNode ==
    /\ node = NodeAt("none", [Pprof |-> FALSE], "none", 0)
    /\ services = <<>>
    /\ runErr = NilErr
    /\ ctx = [cancelled |-> FALSE]

\* The settings of node.Config, by their mapstructure names.
Settings == {"log-level", "rpc-port", "db-path", "network", "pprof"}

\* A setting that a layer (the flags, the config file) does not give.
Unset == "unset"

\* The defaults of the flags: info, 6060, the empty path, mainnet, false.
Defaults ==
    [k \in Settings |->
        CASE k = "log-level" -> "info"
          [] k = "rpc-port" -> "6060"
          [] k = "db-path" -> ""
          [] k = "network" -> "mainnet"
          [] k = "pprof" -> "false"]

\* The arguments of the command: the value of each flag that is given, and
\* of --config (Unset when it is not given), and what the named file holds
\* (NoFile when there is no such file).
File(exists, sets) == [exists |-> exists, sets |-> sets]
NoFile == File(FALSE, [k \in Settings |-> Unset])
Args(flags, config, file) == [flags |-> flags, config |-> config, file |-> file]

\* new(node.Config): one value per setting, none set yet.
ZeroConfig == [k \in Settings |-> ""]

\* The result of executing the command.
Executed(args, config, err) == [args |-> args, config |-> config, err |-> err]

NoCmd == Executed(Args([k \in Settings |-> Unset], Unset, NoFile), ZeroConfig, "none")

InitCmd == cmd = NoCmd

Init == InitServer /\ InitCore /\ InitCommit /\ InitNode /\ InitCmd

\* Server.RegisterMethod(method), called while no request is being handled.
RegisterMethod(method) ==
    /\ input = NoData
    /\ registration = NoRegistration
    /\ methods' = IF registerError(method) # "" THEN methods ELSE Registered(methods, method)
    /\ registration' = [method |-> method, err |-> registerError(method)]
    /\ UNCHANGED <<input, out, resObjs, calls, coreVars, commitVars, nodeVars, cmdVars>>

\* The caller takes the error RegisterMethod returned.
ReturnRegistered ==
    /\ registration # NoRegistration
    /\ registration' = NoRegistration
    /\ UNCHANGED <<methods, input, out, resObjs, calls, coreVars, commitVars, nodeVars, cmdVars>>

\* What a Handle call leaves: r is what HandleReader gave.
Respond(r) ==
    /\ out' = r.out
    /\ resObjs' = r.resObjs
    /\ calls' = r.calls

\* Server.Handle(data): the whole call.
Handle(data) ==
    /\ input = NoData
    /\ registration = NoRegistration
    /\ input' = data
    /\ Respond(HandleReader(methods, data))
    /\ UNCHANGED <<methods, registration, coreVars, commitVars, nodeVars, cmdVars>>

\* The caller takes what Handle returned; the server is ready for the next call.
Return ==
    /\ input # NoData
    /\ input' = NoData
    /\ out' = Idle
    /\ resObjs' = <<>>
    /\ calls' = <<>>
    /\ UNCHANGED <<methods, registration, coreVars, commitVars, nodeVars, cmdVars>>

NextServer ==
    \/ \E method \in Methods : RegisterMethod(method)
    \/ ReturnRegistered
    \/ \E data \in Inputs : Handle(data)
    \/ Return

SpecServer == Init /\ [][NextServer]_vars

\* verifyTransactions(list, n): the whole call.
VerifyTransactions(list, n) ==
    /\ network = "none"
    /\ txs' = list
    /\ network' = n
    /\ verdict' = verifyTransactions(list, n)
    /\ UNCHANGED <<rpcVars, commitVars, nodeVars, cmdVars>>

\* The caller takes the error verifyTransactions returned.
ReturnVerdict ==
    /\ network # "none"
    /\ txs' = NoTxs
    /\ network' = "none"
    /\ verdict' = <<>>
    /\ UNCHANGED <<rpcVars, commitVars, nodeVars, cmdVars>>

NextVerifier ==
    \/ \E list \in TransactionLists, n \in Networks : VerifyTransactions(list, n)
    \/ ReturnVerdict

SpecVerifier == Init /\ [][NextVerifier]_vars

\* transactionCommitment(transactions): the whole call.
TransactionCommitment(transactions, fail) ==
    /\ committing = NoCommitting
    /\ committing' = [kind |-> "transactions", transactions |-> transactions,
                      receipts |-> <<>>, fail |-> fail]
    /\ committed' = transactionCommitment(transactions, fail)
    /\ UNCHANGED <<rpcVars, coreVars, nodeVars, cmdVars>>

\* eventCommitment(receipts): the whole call.
EventCommitment(receipts, fail) ==
    /\ committing = NoCommitting
    /\ committing' = [kind |-> "events", transactions |-> <<>>,
                      receipts |-> receipts, fail |-> fail]
    /\ committed' = eventCommitment(receipts, fail)
    /\ UNCHANGED <<rpcVars, coreVars, nodeVars, cmdVars>>

\* The caller takes the commitment; the temporary trie is gone.
ReturnCommitment ==
    /\ committing # NoCommitting
    /\ committing' = NoCommitting
    /\ committed' = NoCommitment
    /\ UNCHANGED <<rpcVars, coreVars, nodeVars, cmdVars>>

NextCommitment ==
    \/ \E transactions \in CommitLists, fail \in Failures :
            TransactionCommitment(transactions, fail)
    \/ \E receipts \in ReceiptLists, fail \in Failures : EventCommitment(receipts, fail)
    \/ ReturnCommitment

SpecCommitment == Init /\ [][NextCommitment]_vars

\* node.New: the Node of a configuration.
New(cfg) ==
    /\ node.pc = "none"
    /\ node' = NodeAt("new", cfg, "none", 0)
    /\ UNCHANGED <<services, runErr, ctx, rpcVars, coreVars, commitVars, cmdVars>>

\* Node.Run up to the deferred Close: the logger and the database; failed
\* names the call that returns an error ("" when none does).
RunOpen(failed) ==
    /\ node.pc = "new"
    /\ runErr' = IF failed = "" THEN NilErr ELSE ErrOf(failed)
    /\ node' = IF failed = "" THEN [node EXCEPT !.pc = "start", !.db = "open"]
               ELSE [node EXCEPT !.pc = "returned"]
    /\ UNCHANGED <<services, ctx, rpcVars, coreVars, commitVars, cmdVars>>

\* One turn of the loop over n.services: wg.Go starts the goroutine of the
\* next service.
RunGo ==
    /\ node.pc = "start"
    /\ Len(services) < Len(ServicesOf(node.cfg))
    /\ services' = Append(services, Goroutine("run", NilErr))
    /\ UNCHANGED <<node, runErr, ctx, rpcVars, coreVars, commitVars, cmdVars>>

\* The loop is over: defer wg.Wait(), and Run blocks on <-ctx.Done().
RunBlock ==
    /\ node.pc = "start"
    /\ Len(services) = Len(ServicesOf(node.cfg))
    /\ node' = [node EXCEPT !.pc = "blocked"]
    /\ UNCHANGED <<services, runErr, ctx, rpcVars, coreVars, commitVars, cmdVars>>

\* The Run of service i returns, with an error or without.
ServiceReturns(i, failed) ==
    /\ i \in 1..Len(services)
    /\ services[i].pc = "run"
    /\ services' = [services EXCEPT ![i] =
                        Goroutine("assign", IF failed THEN ErrOf(ServicesOf(node.cfg)[i])
                                            ELSE NilErr)]
    /\ UNCHANGED <<node, runErr, ctx, rpcVars, coreVars, commitVars, cmdVars>>

\* err = s.Run(ctx): goroutine i writes the shared variable.
GoAssign(i) ==
    /\ i \in 1..Len(services)
    /\ services[i].pc = "assign"
    /\ runErr' = services[i].result
    /\ services' = [services EXCEPT ![i].pc = "check"]
    /\ UNCHANGED <<node, ctx, rpcVars, coreVars, commitVars, cmdVars>>

\* err != nil: goroutine i reads the shared variable, and cancels when it
\* holds an error.
GoCheck(i) ==
    /\ i \in 1..Len(services)
    /\ services[i].pc = "check"
    /\ ctx' = IF ~runErr.nil THEN [cancelled |-> TRUE] ELSE ctx
    /\ services' = [services EXCEPT ![i].pc = "done"]
    /\ UNCHANGED <<node, runErr, rpcVars, coreVars, commitVars, cmdVars>>

\* The caller of Run cancels the context it gave.
Cancel ==
    /\ node.pc # "returned"
    /\ ~ctx.cancelled
    /\ ctx' = [cancelled |-> TRUE]
    /\ UNCHANGED <<node, services, runErr, rpcVars, coreVars, commitVars, cmdVars>>

\* <-ctx.Done() returns; cancel() and the return statement: the deferred
\* calls run, wg.Wait() first.
RunShutdown ==
    /\ node.pc = "blocked"
    /\ ctx.cancelled
    /\ node' = [node EXCEPT !.pc = "waiting"]
    /\ UNCHANGED <<services, runErr, ctx, rpcVars, coreVars, commitVars, cmdVars>>

\* A wait that returns with goroutines still running.
WaitReturnsEarly(goroutines) == \E i \in 1..Len(goroutines) : goroutines[i].pc = "done"

\* wg.Wait() returns: every goroutine of the group is over.
WaitReturns(goroutines) == \A i \in 1..Len(goroutines) : goroutines[i].pc = "done"

\* The deferred wg.Wait() returns, then the deferred n.db.Close() runs and
\* Run returns.
RunClose ==
    /\ node.pc = "waiting"
    /\ WaitReturns(services)
    /\ node' = [node EXCEPT !.pc = "returned", !.db = "closed", !.closes = @ + 1]
    /\ UNCHANGED <<services, runErr, ctx, rpcVars, coreVars, commitVars, cmdVars>>

NextNode ==
    \/ \E cfg \in Configs : New(cfg)
    \/ \E failed \in {"", "NewZapLogger", "pebble.New"} : RunOpen(failed)
    \/ RunGo
    \/ RunBlock
    \/ \E i \in 1..3, failed \in BOOLEAN : ServiceReturns(i, failed)
    \/ \E i \in 1..3 : GoAssign(i)
    \/ \E i \in 1..3 : GoCheck(i)
    \/ Cancel
    \/ RunShutdown
    \/ RunClose

SpecNode == Init /\ [][NextNode]_vars

\* One layer of settings laid over another: the upper layer's value where it
\* gives one.
Overlay(upper, lower) == [k \in Settings |-> IF upper[k] # Unset THEN upper[k] ELSE lower[k]]

\* A resolution that lets the file win over the flags.
resolveFileFirst(flags, file) == Overlay(file, Overlay(flags, Defaults))

\* The settings the command resolves from its flags and the file it read.
resolve(flags, file) == Overlay(flags, Overlay(file, Defaults))

\* Whether --config names a file to read: not when it is absent or empty.
readsFile(args) == args.config \notin {Unset, ""}

\* NewCmd(config, run) executed with args: the file is read when --config
\* names one, and the settings are resolved into config.
Execute(args) ==
    /\ cmd = NoCmd
    /\ cmd' = IF readsFile(args) /\ ~args.file.exists
              THEN Executed(args, ZeroConfig, "config file not found")
              ELSE Executed(args,
                            resolve(args.flags,
                                    IF readsFile(args) THEN args.file.sets
                                    ELSE [k \in Settings |-> Unset]),
                            "")
    /\ UNCHANGED <<rpcVars, coreVars, commitVars, nodeVars>>

ReturnExecuted ==
    /\ cmd # NoCmd
    /\ cmd' = NoCmd
    /\ UNCHANGED <<rpcVars, coreVars, commitVars, nodeVars>>

\* The values a flag is given on the command line.
FlagValues(k) ==
    CASE k = "log-level" -> {"error"}
      [] k = "rpc-port" -> {"4577"}
      [] k = "db-path" -> {"/home/flag/.juno"}
      [] k = "network" -> {"integration"}
      [] k = "pprof" -> {"true", "false"}

\* The values a config file sets.
FileValues(k) ==
    CASE k = "log-level" -> {"debug"}
      [] k = "rpc-port" -> {"4576"}
      [] k = "db-path" -> {"/home/config-file/.juno"}
      [] k = "network" -> {"goerli"}
      [] k = "pprof" -> {"true"}

Layers(values(_)) ==
    {l \in [Settings -> {Unset} \cup UNION {values(k) : k \in Settings}] :
        \A k \in Settings : l[k] = Unset \/ l[k] \in values(k)}

ArgLists ==
    {Args(flags, config, NoFile) :
        flags \in Layers(FlagValues), config \in {Unset, "", "config-file-test.yaml"}}
    \cup {Args(flags, "junoCfg.yaml", File(TRUE, sets)) :
        flags \in Layers(FlagValues), sets \in Layers(FileValues)}

NextCmd ==
    \/ \E args \in ArgLists : Execute(args)
    \/ ReturnExecuted

SpecCmd == Init /\ [][NextCmd]_vars

\* ------------------------------------------------------------------- claims
\* The requests of the call in progress, and what is known of the i-th.
Reqs == Requests(input)

IsObject(i) == Reqs[i].form = "object"

Raw(i) == Reqs[i].req

IsBatchInput == input.form = "array"

\* The i-th request was processed: the call computed its resObject.
Processed(i) == i \in DOMAIN resObjs

\* A handler was invoked for the i-th request.
Invoked(i) == \E c \in DOMAIN calls : calls[c].idx = i

InvocationsOf(i) == SelectSeq(calls, LAMBDA c : c.idx = i)

\* The place of the i-th request's response in the returned array: the
\* number of requests up to it that have a response.
Rank(i) == Cardinality({j \in 1..i : ~resObjs[j].nil})

\* Handle returned a response object for the i-th request, and this is it.
Answered(i) ==
    /\ Processed(i)
    /\ ~resObjs[i].nil
    /\ out.kind = (IF IsBatchInput THEN "array" ELSE "object")
    /\ Rank(i) \in DOMAIN out.objs

Answer(i) == out.objs[Rank(i)]

\* The id member of a response to a request whose id member is id.
Echo(id) == IF id = JAbsent THEN JNull ELSE id

IsIntegerLiteral(v) == ~Contains(v, ".") /\ ~Contains(v, "e") /\ ~Contains(v, "E")

\* The id is a string or an integer.
StringOrInteger(id) == id.k = "string" \/ (id.k = "number" /\ IsIntegerLiteral(id.v))

\* jsonrpc is "2.0", the method is not empty, params is absent, an array or
\* an object.
WellFormedButId(r) ==
    r.jsonrpc = "2.0" /\ r.method # "" /\ r.params.k \in {"absent", "null", "array", "object"}

\* C1: a request whose id member is absent gets no response object, whatever
\* becomes of it: alone it returns no bytes, in a batch it adds no element,
\* and a batch of notifications only returns no bytes.
IsNotification(i) == IsObject(i) /\ Raw(i).id = JAbsent

C1_NotificationsSuppressed ==
    /\ \A i \in DOMAIN resObjs : IsNotification(i) => resObjs[i].nil
    /\ (Len(Reqs) >= 1 /\ \A i \in 1..Len(Reqs) : IsNotification(i)) => out.objs = <<>>

\* C2: a well-formed request with a string or integer id X that names a
\* method not in the registry is answered with id X and code -32601, and no
\* handler is invoked for it; alone or as an element of a batch.
UnknownMethod(i) ==
    /\ IsObject(i)
    /\ WellFormedButId(Raw(i))
    /\ StringOrInteger(Raw(i).id)
    /\ Raw(i).method \notin DOMAIN methods

C2_UnknownMethodKeepsId ==
    \A i \in 1..Len(Reqs) :
        UnknownMethod(i) =>
            /\ ~Invoked(i)
            /\ ~IsBatchInput => Answered(i)
            /\ out.kind # "panic" => Answered(i)
            /\ Processed(i) =>
                /\ ~resObjs[i].nil
                /\ resObjs[i].val.ID = DecodeAny(Raw(i).id)
                /\ resObjs[i].val.Error = Error(MethodNotFound, "Method Not Found", NoErrData)
            /\ Answered(i) =>
                /\ Answer(i).id = Raw(i).id
                /\ Answer(i).has = {"error"}
                /\ Answer(i).error.code = -32601
                /\ Answer(i).error.message = "Method Not Found"

C2_Witness ==
    /\ IsBatchInput
    /\ \E i \in 2..Len(Reqs) : UnknownMethod(i) /\ Answered(i) /\ Rank(i) # i

\* C3: a batch of n >= 1 requests with ids, none a notification, returns an
\* array of exactly n elements, the i-th carrying the i-th request's id; and
\* with notifications mixed in, the responses that remain keep the order of
\* their requests.
HasId(i) == IsObject(i) /\ StringOrInteger(Raw(i).id)

C3_BatchInRequestOrder ==
    /\ (IsBatchInput /\ Len(Reqs) >= 1 /\ \A i \in 1..Len(Reqs) : HasId(i)) =>
            /\ out.kind = "array"
            /\ Len(out.objs) = Len(Reqs)
            /\ \A i \in 1..Len(Reqs) : out.objs[i].id = Raw(i).id
    /\ (IsBatchInput /\ out.kind = "array") =>
            \A i \in 1..Len(Reqs) : HasId(i) =>
                /\ Rank(i) \in DOMAIN out.objs
                /\ out.objs[Rank(i)].id = Raw(i).id

\* C4: a request whose id is a floating-point number, a boolean, an array or
\* an object is answered with code -32600 and the ErrInvalidID message, the
\* response id is null, and no handler is invoked for it.
InvalidId(id) ==
    \/ id.k = "number" /\ Contains(id.v, ".")
    \/ id.k \in {"bool", "array", "object"}

C4_InvalidIdRejected ==
    \A i \in DOMAIN resObjs :
        (IsObject(i) /\ InvalidId(Raw(i).id)) =>
            /\ ~Invoked(i)
            /\ ~resObjs[i].nil
            /\ resObjs[i].val.Error = Error(InvalidRequest, "Invalid Request", StrData(ErrInvalidID))
            /\ resObjs[i].val.ID = Nil

\* C6: for a request to a registered method whose params is an array, the
\* handler is invoked if and only if the array is as long as the handler's
\* arity and every element decodes to its target type, the i-th element being
\* the i-th argument; an array of another length is answered with -32602 and
\* the request's id, the handler not invoked.
ToRegistered(i) ==
    /\ IsObject(i)
    /\ isSane(Decode(Raw(i))) = ""
    /\ Raw(i).method \in DOMAIN methods

HandlerOf(i) == methods[Raw(i).method].Handler

\* The JSON value j decodes to the Go type t.
Fits(j, t) == (j.k = "string" /\ t = "string") \/ (j.k = "number" /\ t = "uint64")

InvalidParamsFor(i) ==
    /\ ~Invoked(i)
    /\ Processed(i)
    /\ ~resObjs[i].nil
    /\ resObjs[i].val.Error.Code = -32602
    /\ resObjs[i].val.Error.Message = "Invalid Params"
    /\ resObjs[i].val.ID = DecodeAny(Raw(i).id)
    /\ resObjs[i].val.Result = Nil
    /\ Answered(i) =>
        /\ Answer(i).id = Echo(Raw(i).id)
        /\ Answer(i).has = {"error"}
        /\ Answer(i).error.code = -32602

\* All the requests before the i-th were processed, so the i-th is reached.
Reached(i) == \A j \in 1..(i - 1) : Processed(j)

C6_PositionalBinding ==
    \A i \in 1..Len(Reqs) :
        (ToRegistered(i) /\ Raw(i).params.k = "array" /\ Reached(i)) =>
            LET list == Raw(i).params.list
                in == HandlerOf(i).in
                binds == Len(list) = Len(in) /\ \A j \in 1..Len(list) : Fits(list[j], in[j])
            IN  /\ Invoked(i) <=> binds
                /\ binds =>
                    /\ Len(InvocationsOf(i)) = 1
                    /\ InvocationsOf(i)[1].method = Raw(i).method
                    /\ InvocationsOf(i)[1].args =
                            [j \in 1..Len(list) |-> GoValue(in[j], list[j].v)]
                /\ ~binds => InvalidParamsFor(i)

C6_Witness ==
    \E i \in 1..Len(Reqs) :
        /\ ToRegistered(i) /\ Raw(i).params.k = "array"
        /\ Invoked(i)
        /\ Len(Raw(i).params.list) = 2

\* C7: for a request to a registered method whose params is an object, the
\* arguments follow the configured parameters: the i-th is the value under
\* the i-th name when present, the zero value of the i-th input type when the
\* name is missing and the parameter optional; a missing required parameter
\* is answered with -32602, the handler not invoked. When binding succeeds
\* the arguments are as many as the handler's arity.
ZeroOf(t) == IF t = "string" THEN GoValue("string", <<>>) ELSE GoValue("uint64", <<"0">>)

C7_NamedBinding ==
    \A i \in 1..Len(Reqs) :
        (ToRegistered(i) /\ Raw(i).params.k = "object" /\ Reached(i)) =>
            LET map == Raw(i).params.map
                configured == methods[Raw(i).method].Params
                in == HandlerOf(i).in
                present(j) == map[configured[j].Name] # JAbsent
                lacking == \E j \in 1..Len(configured) : ~present(j) /\ ~configured[j].Optional
                fitting == \A j \in 1..Len(configured) :
                                present(j) => Fits(map[configured[j].Name], in[j])
            IN  /\ lacking => InvalidParamsFor(i)
                /\ (~lacking /\ fitting) =>
                    /\ Len(InvocationsOf(i)) = 1
                    /\ InvocationsOf(i)[1].args =
                            [j \in 1..Len(configured) |->
                                IF present(j) THEN GoValue(in[j], map[configured[j].Name].v)
                                ELSE ZeroOf(in[j])]
                /\ \A c \in DOMAIN calls :
                        calls[c].idx = i => Len(calls[c].args) = Len(in)
                /\ Invoked(i) => (~lacking /\ fitting)

C7_Witness ==
    \E i \in 1..Len(Reqs) :
        /\ ToRegistered(i) /\ Raw(i).params.k = "object"
        /\ Invoked(i)
        /\ \E j \in 1..Len(methods[Raw(i).method].Params) :
                Raw(i).params.map[methods[Raw(i).method].Params[j].Name] = JAbsent

\* C5: verifyTransactions checks every transaction of the list and returns a
\* chain with exactly one entry for each transaction whose verification fails
\* (the recomputed hash differs from the declared one, or hashing returns an
\* error) and none for any other; the length of the chain, counted by
\* following Unwrap, is the number of failing transactions, and the result is
\* nil iff none fails. A single Invoke v1 transaction whose declared hash is
\* the recipe verifies, and with other call data under the same declared hash
\* the chain has exactly one entry.
Fails(t, n) ==
    \/ transactionHash(t, n).err # ""
    \/ transactionHash(t, n).hash # t.TransactionHash

Failing == {i \in 1..Len(txs) : Fails(txs[i], network)}

RECURSIVE ChainLength(_)
ChainLength(e) == IF e = <<>> THEN 0 ELSE 1 + ChainLength(Unwrap(e))

\* The hash of an Invoke transaction of version 1 with the call data cd.
InvokeV1Recipe(t, cd, n) ==
    PedersenArray(<<invokeFelt, Felt(1), t.SenderAddress, Felt(0), PedersenArray(cd),
                    t.MaxFee, ChainIDOf(n), t.Nonce>>)

IsInvokeV1(t) == t.type = "Invoke" /\ t.Version = Felt(1)

C5_EveryMismatchReported ==
    network # "none" =>
        /\ ChainLength(verdict) = Cardinality(Failing)
        /\ verdict = <<>> <=> Failing = {}
        /\ \A i \in 1..Len(txs) :
                Cardinality({j \in 1..Len(verdict) : verdict[j].t = txs[i]})
                    = Cardinality({k \in Failing : txs[k] = txs[i]})
        /\ \A j \in 1..Len(verdict) :
                /\ \E i \in Failing : txs[i] = verdict[j].t
                /\ verdict[j].hashFailure = transactionHash(verdict[j].t, network).err
        /\ (Len(txs) = 1 /\ IsInvokeV1(txs[1])) =>
                /\ txs[1].TransactionHash = InvokeV1Recipe(txs[1], txs[1].CallData, network)
                        => verdict = <<>>
                /\ \A cd \in {CallDataA, CallDataB} \ {txs[1].CallData} :
                        txs[1].TransactionHash = InvokeV1Recipe(txs[1], cd, network)
                            => ChainLength(verdict) = 1

C5_Witness ==
    /\ network # "none"
    /\ Len(txs) = 3
    /\ Failing = {1, 3}
    /\ ChainLength(verdict) = 2

\* C8: for a registered method with configured parameters p1..pk and values
\* v1..vk, the request with params {p1: v1, ..., pk: vk} and the request with
\* params [v1, ..., vk], same method and id, invoke the handler with the same
\* arguments and produce the same response.
Configured(i) == methods[Raw(i).method].Params

\* The params object of the i-th request has exactly the configured names.
FullyNamed(i) ==
    /\ IsObject(i)
    /\ Raw(i).method \in DOMAIN methods
    /\ Raw(i).params.k = "object"
    /\ \A n \in ParamNames :
            Raw(i).params.map[n] # JAbsent <=>
                \E j \in 1..Len(Configured(i)) : Configured(i)[j].Name = n

\* The same values in the order of the configured parameters.
Positional(i) ==
    RawParams("array",
              [j \in 1..Len(Configured(i)) |-> Raw(i).params.map[Configured(i)[j].Name]],
              NoRawMap)

\* The input with the params of its i-th request made positional.
Reordered(i) ==
    IF IsBatchInput THEN [input EXCEPT !.elems[i].req.params = Positional(i)]
    ELSE [input EXCEPT !.req.params = Positional(i)]

C8_NamedEqualsPositional ==
    \A i \in 1..Len(Reqs) :
        FullyNamed(i) => HandleReader(methods, Reordered(i)) = Returned(out, resObjs, calls)

C8_Witness ==
    \E i \in 1..Len(Reqs) :
        FullyNamed(i) /\ Invoked(i) /\ Len(Configured(i)) = 2 /\ Answered(i)

FailsBeforeId(r) == r.jsonrpc # "2.0" \/ r.method = "" \/ r.params.k = "scalar"

C10_SanityFailureKeepsId ==
    \A i \in 1..Len(Reqs) :
        (IsObject(i) /\ Reached(i) /\ (FailsBeforeId(Raw(i)) \/ InvalidId(Raw(i).id))) =>
            /\ ~Invoked(i)
            /\ Processed(i)
            /\ ~resObjs[i].nil
            /\ resObjs[i].val.Error.Code = -32600
            /\ resObjs[i].val.Error.Message = "Invalid Request"
            /\ out.kind # "panic" => Answered(i)
            /\ Answered(i) => (Answer(i).has = {"error"} /\ Answer(i).error.code = -32600)
            /\ FailsBeforeId(Raw(i)) =>
                /\ resObjs[i].val.ID = DecodeAny(Raw(i).id)
                /\ resObjs[i].val.Error.Data # StrData(ErrInvalidID)
                /\ Answered(i) => Answer(i).id = Echo(Raw(i).id)
            /\ ~FailsBeforeId(Raw(i)) =>
                /\ resObjs[i].val.ID = Nil
                /\ resObjs[i].val.Error.Data = StrData(ErrInvalidID)
                /\ Answered(i) => Answer(i).id = JNull

C10_Witness ==
    /\ IsBatchInput
    /\ \E i \in 2..Len(Reqs) :
            /\ IsObject(i) /\ FailsBeforeId(Raw(i)) /\ Raw(i).id = IdX
            /\ Answered(i) /\ Answer(i).id = IdX

\* C11: the response element produced for a JSON value r as a member of a
\* batch equals the response produced when r is sent alone: same error code
\* (-32700 when r does not decode into a request, -32600 when it fails the
\* sanity check), same id, same result, and the same suppression when r is a
\* notification.
\* The i-th request of the input, sent as a single request.
Alone(i) ==
    IF IsObject(i) THEN Data(<<"{">>, "object", Raw(i), <<>>)
    ELSE Data(<<"1">>, "value", NoRequest, <<>>)

C11_BatchElementLikeSingle ==
    IsBatchInput =>
        \A i \in DOMAIN resObjs :
            /\ HandleReader(methods, Alone(i)).out.kind # "panic"
            /\ HandleReader(methods, Alone(i)).resObjs = <<resObjs[i]>>
            /\ resObjs[i].nil <=> HandleReader(methods, Alone(i)).out.kind = "none"
            /\ Answered(i) => HandleReader(methods, Alone(i)).out.objs = <<Answer(i)>>

\* C12: a request whose first non-whitespace byte is '[' and whose array has
\* no element is answered with one response object, not an array, whose
\* error code is -32600 with data "empty batch" and whose id is null; no
\* handler is invoked.
IsEmptyBatch == input # NoData /\ isBatch(input.head) /\ input.form = "array" /\ input.elems = <<>>

C12_EmptyBatch ==
    IsEmptyBatch =>
        /\ out.kind = "object"
        /\ Len(out.objs) = 1
        /\ out.objs[1].has = {"error"}
        /\ out.objs[1].error.code = -32600
        /\ out.objs[1].error.message = "Invalid Request"
        /\ out.objs[1].error.hasData
        /\ out.objs[1].error.data = "empty batch"
        /\ out.objs[1].id = JNull
        /\ calls = <<>>

C12_Witness ==
    /\ IsEmptyBatch
    /\ input.head = <<"\t", "\r", "[">>
    /\ methods # <<>>
    /\ out.kind = "object"

\* C13: RegisterMethod returns a configuration error, and leaves the registry
\* unchanged, whenever the handler is not a function, its number of inputs
\* differs from len(Params), it does not return exactly two values, or its
\* second return type is not *Error; otherwise it returns nil and the registry
\* maps the method's name to it. Every method in the registry has a handler
\* whose arity is its number of configured parameters.
ValidMethod(m) ==
    /\ m.Handler.kind = "func"
    /\ Len(m.Handler.in) = Len(m.Params)
    /\ Len(m.Handler.outs) = 2
    /\ m.Handler.outs[2] = "*Error"

RegistryWellFormed ==
    \A n \in DOMAIN methods :
        methods[n].Name = n /\ Len(methods[n].Handler.in) = Len(methods[n].Params)

RegistrationStep ==
    registration' # NoRegistration =>
        /\ registration'.err # "" <=> ~ValidMethod(registration'.method)
        /\ ~ValidMethod(registration'.method) => methods' = methods
        /\ ValidMethod(registration'.method) =>
            methods' = [n \in DOMAIN methods \cup {registration'.method.Name} |->
                            IF n = registration'.method.Name THEN registration'.method
                            ELSE methods[n]]

Trusted(t) ==
    \/ t.type = "Invoke" /\ t.Version = Felt(0)
    \/ t.type = "Declare" /\ t.Version = Felt(0)
    \/ t.type = "Deploy"
    \/ t.type = "L1Handler" /\ t.Version = Felt(0) /\ t.Nonce = NilFelt

Reported(t) == \E j \in 1..Len(verdict) : verdict[j].t = t

C14_DeprecatedHashesTrusted ==
    network # "none" =>
        \A i \in 1..Len(txs) :
            Trusted(txs[i]) =>
                /\ transactionHash(txs[i], network).err = ""
                /\ transactionHash(txs[i], network).hash = txs[i].TransactionHash
                /\ ~Reported(txs[i])

C14_Witness ==
    /\ network # "none"
    /\ Len(txs) = 3
    /\ verdict # <<>>
    /\ \E i \in 1..Len(txs) :
            txs[i].type = "L1Handler" /\ Trusted(txs[i]) /\ ~Reported(txs[i])

\* C15: for every (variant, version) outside Invoke {0,1}, Declare {0,1,2},
\* DeployAccount {1}, L1Handler {0} and Deploy (any), transactionHash returns
\* an invalid-transaction-version error and no hash (an L1Handler of a version
\* other than 0 fails even without nonce), and verifyTransactions reports the
\* transaction in its chain with the error attached.
Supported(t) ==
    \/ t.type = "Invoke" /\ t.Version \in {Felt(0), Felt(1)}
    \/ t.type = "Declare" /\ t.Version \in {Felt(0), Felt(1), Felt(2)}
    \/ t.type = "DeployAccount" /\ t.Version = Felt(1)
    \/ t.type = "L1Handler" /\ t.Version = Felt(0)
    \/ t.type = "Deploy"

C15_UnknownVersionsFail ==
    network # "none" =>
        \A i \in 1..Len(txs) :
            ~Supported(txs[i]) =>
                /\ transactionHash(txs[i], network).err = "invalid Transaction version"
                /\ transactionHash(txs[i], network).hash = NilFelt
                /\ \E j \in 1..Len(verdict) :
                        /\ verdict[j].t = txs[i]
                        /\ verdict[j].hashFailure = "invalid Transaction version"
                /\ \A j \in 1..Len(verdict) :
                        verdict[j].t = txs[i] => verdict[j].hashFailure # ""

C15_Witness ==
    /\ network # "none"
    /\ \E i \in 1..Len(txs) :
            /\ txs[i].type = "L1Handler" /\ txs[i].Version # Felt(0) /\ txs[i].Nonce = NilFelt
            /\ Reported(txs[i])

\* C16: for each recomputable (variant, version), transactionHash is the
\* array-Pedersen of these elements in this order, C being the chain id of
\* the network: Invoke v1 (invoke, 1, senderAddress, 0, P*(callData), maxFee,
\* C, nonce); Declare v1 (declare, 1, senderAddress, 0, P*(classHash), maxFee,
\* C, nonce); Declare v2 the same with version 2 and compiledClassHash as
\* ninth element; DeployAccount v1 (deploy_account, 1, contractAddress, 0,
\* P*(classHash, salt, constructorCallData...), maxFee, C, nonce); L1Handler
\* v0 with nonce (l1_handler, 0, contractAddress, entryPointSelector,
\* P*(callData), 0, C, nonce). The signature is never an input of the hash.
HashElements(t, n) ==
    CASE t.type = "Invoke" /\ t.Version = Felt(1) ->
            <<invokeFelt, Felt(1), t.SenderAddress, Felt(0), PedersenArray(t.CallData),
              t.MaxFee, ChainIDOf(n), t.Nonce>>
      [] t.type = "Declare" /\ t.Version = Felt(1) ->
            <<declareFelt, Felt(1), t.SenderAddress, Felt(0), PedersenArray(<<t.ClassHash>>),
              t.MaxFee, ChainIDOf(n), t.Nonce>>
      [] t.type = "Declare" /\ t.Version = Felt(2) ->
            <<declareFelt, Felt(2), t.SenderAddress, Felt(0), PedersenArray(<<t.ClassHash>>),
              t.MaxFee, ChainIDOf(n), t.Nonce, t.CompiledClassHash>>
      [] t.type = "DeployAccount" /\ t.Version = Felt(1) ->
            <<deployAccountFelt, Felt(1), t.ContractAddress, Felt(0),
              PedersenArray(<<t.ClassHash, t.ContractAddressSalt>> \o t.ConstructorCallData),
              t.MaxFee, ChainIDOf(n), t.Nonce>>
      [] t.type = "L1Handler" /\ t.Version = Felt(0) /\ t.Nonce # NilFelt ->
            <<l1HandlerFelt, Felt(0), t.ContractAddress, t.EntryPointSelector,
              PedersenArray(t.CallData), Felt(0), ChainIDOf(n), t.Nonce>>
      [] OTHER -> <<>>

Recomputable(t) == Supported(t) /\ ~Trusted(t)

C16_HashRecipes ==
    network # "none" =>
        \A i \in 1..Len(txs) :
            /\ Recomputable(txs[i]) =>
                /\ HashElements(txs[i], network) # <<>>
                /\ transactionHash(txs[i], network).err = ""
                /\ transactionHash(txs[i], network).hash
                        = PedersenArray(HashElements(txs[i], network))
                /\ Reported(txs[i])
                        <=> txs[i].TransactionHash # PedersenArray(HashElements(txs[i], network))
            /\ \A sig \in {<<>>, SigA, SigB} :
                    transactionHash(Signed(txs[i], sig), network)
                        = transactionHash(txs[i], network)

C16_Witness ==
    /\ network = "MAINNET"
    /\ Len(txs) = 1
    /\ txs[1].type = "Declare" /\ txs[1].Version = Felt(2)
    /\ txs[1].TransactionSignature = SigA
    /\ txs[1].TransactionHash
            = PedersenArray(<<declareFelt, Felt(2), Felt(1), Felt(0), PedersenArray(<<Felt(2)>>),
                              Felt(3), ChainIDOf("MAINNET"), Felt(4), Felt(5)>>)
    /\ verdict = <<>>

\* C17: the leaf put for transaction i is pedersen(hash_i, sigHash_i), where
\* sigHash_i is the array-Pedersen of the signature iff the transaction is an
\* Invoke, and the empty-array Pedersen for every other variant. Two lists
\* that differ only in the signatures of non-Invoke transactions have the
\* same commitment; changing the signature of an Invoke changes its leaf.
CommittingTransactions == committing.kind = "transactions"

\* The list with the signature sig on its transactions of the variants vs.
Resigned(list, variants, sig) ==
    [k \in 1..Len(list) |-> IF list[k].type \in variants THEN Signed(list[k], sig) ELSE list[k]]

C17_SignatureInCommitment ==
    CommittingTransactions =>
        /\ \A k \in 1..Len(committed.puts) :
                committed.puts[k].value =
                    Pedersen(committing.transactions[k].TransactionHash,
                             IF committing.transactions[k].type = "Invoke"
                             THEN PedersenArray(committing.transactions[k].TransactionSignature)
                             ELSE PedersenArray(<<>>))
        /\ \A sig \in {<<>>, SigA, SigB} :
                transactionCommitment(
                    Resigned(committing.transactions, {"Declare", "DeployAccount"}, sig),
                    committing.fail) = committed
        /\ \A k \in 1..Len(committed.puts), sig \in {<<>>, SigA, SigB} :
                (/\ committing.transactions[k].type = "Invoke"
                 /\ sig # committing.transactions[k].TransactionSignature) =>
                    transactionCommitment(
                        [committing.transactions EXCEPT ![k] = Signed(@, sig)],
                        committing.fail).puts[k].value # committed.puts[k].value

C17_Witness ==
    /\ CommittingTransactions
    /\ committed.err = ""
    /\ Len(committed.puts) = 3
    /\ \E k \in 1..3 : /\ committing.transactions[k].type = "Declare"
                       /\ committing.transactions[k].TransactionSignature = SigA
    /\ \E k \in 1..3 : /\ committing.transactions[k].type = "Invoke"
                       /\ committing.transactions[k].TransactionSignature = SigA

\* C18: in transactionCommitment the k-th transaction, and in eventCommitment
\* the k-th event of the events of all receipts in order, is put at key k.
\* After n items the keys written are exactly 0..n-1, each once; the root is
\* read only after the last put, and the value returned on success is that
\* root. The event commitment depends only on the flattened event sequence,
\* not on the grouping into receipts or on any other receipt field.
RECURSIVE Flattened(_)
Flattened(receipts) ==
    IF receipts = <<>> THEN <<>> ELSE Head(receipts).Events \o Flattened(Tail(receipts))

\* The items of the commitment call in progress.
Items ==
    IF CommittingTransactions THEN committing.transactions ELSE Flattened(committing.receipts)

C18_KeysByAppearance ==
    committing.kind # "none" =>
        /\ \A k \in 1..Len(committed.puts) : committed.puts[k].key = Felt(k - 1)
        /\ Len(committed.puts) <= Len(Items)
        /\ committed.rootAfter \in {-1, Len(Items)}
        /\ committed.err = "" =>
            /\ Len(committed.puts) = Len(Items)
            /\ committed.rootAfter = Len(Items)
            /\ committed.commitment = Root([height |-> commitmentTrieHeight, puts |-> committed.puts])
        /\ committed.err # "" => (committed.commitment = NilFelt /\ committed.rootAfter = -1)
        /\ committing.kind = "events" =>
            /\ \A k \in 1..Len(committed.puts) :
                    committed.puts[k].value =
                        PedersenArray(<<Items[k].From, PedersenArray(Items[k].Keys),
                                        PedersenArray(Items[k].Data)>>)
            /\ eventCommitment(<<TransactionReceipt(Felt(9), Items)>>, committing.fail)
                    = committed

C18_Witness ==
    /\ committing.kind = "events"
    /\ Len(committing.receipts) = 2
    /\ Len(committing.receipts[1].Events) = 2
    /\ Len(committing.receipts[2].Events) = 2
    /\ committed.err = ""
    /\ Len(committed.puts) = 4

\* C19: transactionCommitment of the empty transaction list and
\* eventCommitment of the empty receipt list make no put, return no error and
\* return the root of the empty trie, the zero field element.
C19_EmptyCommitments ==
    (committing.kind # "none" /\ committing.transactions = <<>> /\ committing.receipts = <<>>) =>
        /\ committed.puts = <<>>
        /\ committed.err = ""
        /\ committed.rootAfter = 0
        /\ committed.commitment = Felt(0)

C19_Witness ==
    /\ committing.kind = "events"
    /\ committing.receipts = <<>>
    /\ committing.fail = 1
    /\ committed.commitment = Felt(0)

\* C20: Node.Run does not return, and does not close the database, until
\* every service it started has returned from its Run; the database is closed
\* exactly once on every path on which it was opened.
Started == 1..Len(services)

StillRunning(i) == services[i].pc = "run"

Opened == node.db # "none"

C20_RunWaitsForServices ==
    /\ node.pc = "returned" => \A i \in Started : ~StillRunning(i) /\ services[i].pc = "done"
    /\ node.db = "closed" => \A i \in Started : ~StillRunning(i)
    /\ node.closes = (IF node.db = "closed" THEN 1 ELSE 0)
    /\ node.pc = "returned" => (Opened <=> node.db = "closed")
    /\ node.pc = "returned" /\ Opened => Len(services) = Len(ServicesOf(node.cfg))

C20_Witness ==
    /\ node.pc = "returned"
    /\ node.db = "closed"
    /\ Len(services) = 3
    /\ \E i \in Started : ~services[i].result.nil
    /\ \E i \in Started : services[i].result.nil

\* C21: for each of the five settings independently, the resolved value is
\* the flag's value when the flag is given, otherwise the config file's value
\* when the file sets it, otherwise the default; an empty --config path reads
\* no file and succeeds; a --config path naming no file fails.
FileSets(k) == readsFile(cmd.args) /\ cmd.args.file.exists /\ cmd.args.file.sets[k] # Unset

Precedence(k) ==
    IF cmd.args.flags[k] # Unset THEN cmd.config[k] = cmd.args.flags[k]
    ELSE IF FileSets(k) THEN cmd.config[k] = cmd.args.file.sets[k]
    ELSE cmd.config[k] = Defaults[k]

C21_ConfigPrecedence ==
    cmd # NoCmd =>
        /\ cmd.err = "" => \A k \in Settings : Precedence(k)
        /\ cmd.args.config \in {Unset, ""} => cmd.err = ""
        /\ cmd.err # "" <=> readsFile(cmd.args) /\ ~cmd.args.file.exists
        /\ Defaults = [k \in Settings |->
                          IF k = "log-level" THEN "info"
                          ELSE IF k = "rpc-port" THEN "6060"
                          ELSE IF k = "db-path" THEN ""
                          ELSE IF k = "network" THEN "mainnet"
                          ELSE "false"]

C21_Witness ==
    /\ cmd.err = ""
    /\ cmd.args.flags["db-path"] # Unset
    /\ cmd.args.flags["network"] = Unset
    /\ FileSets("db-path")
    /\ FileSets("network")
    /\ ~FileSets("rpc-port")
    /\ cmd.config["db-path"] = "/home/flag/.juno"
    /\ cmd.config["network"] = "goerli"
    /\ cmd.config["rpc-port"] = "6060"

\* C22: following the chain returned by verifyTransactions from the returned
\* error through Unwrap yields the failing transactions in the reverse of
\* their order in the input list: the returned error describes the last
\* failing transaction, and the end of the chain (Unwrap returns nil) the
\* first failing one.
RECURSIVE FailingFrom(_)
FailingFrom(i) ==
    IF i > Len(txs) THEN <<>>
    ELSE (IF Fails(txs[i], network) THEN <<txs[i]>> ELSE <<>>) \o FailingFrom(i + 1)

RECURSIVE Followed(_)
Followed(e) == IF e = <<>> THEN <<>> ELSE <<e[1].t>> \o Followed(Unwrap(e))

Reversed(seq) == [j \in 1..Len(seq) |-> seq[Len(seq) + 1 - j]]

RECURSIVE LastOf(_)
LastOf(e) == IF Unwrap(e) = <<>> THEN e[1] ELSE LastOf(Unwrap(e))

C22_ChainInReverseOrder ==
    network # "none" =>
        /\ Followed(verdict) = Reversed(FailingFrom(1))
        /\ verdict # <<>> =>
              /\ verdict[1].t = txs[CHOOSE i \in Failing : \A k \in Failing : k <= i]
              /\ LastOf(verdict).t = txs[CHOOSE i \in Failing : \A k \in Failing : i <= k]

C22_Witness ==
    /\ network # "none"
    /\ Len(txs) = 3
    /\ Failing = {1, 3}
    /\ txs[1] # txs[3]
    /\ verdict[1].t = txs[3]
    /\ Unwrap(verdict) # <<>>
    /\ Unwrap(Unwrap(verdict)) = <<>>
    /\ Unwrap(verdict)[1].t = txs[1]

\* C23: the server never aborts on a request: a handler is called only with
\* exactly as many arguments as its arity, and every failure to bind is
\* answered with -32602, also when the request omits params (or sends params
\* null) to a method whose handler takes one or more parameters.
OmitsParams(i) == Raw(i).params.k \in {"absent", "null"}

C23_ServerNeverAborts ==
    /\ out.kind # "panic"
    /\ \A c \in DOMAIN calls :
            Len(calls[c].args) = NumIn(methods[calls[c].method].Handler)
    /\ \A i \in 1..Len(Reqs) :
            (ToRegistered(i) /\ Reached(i) /\ OmitsParams(i) /\ NumIn(HandlerOf(i)) >= 1) =>
                InvalidParamsFor(i)

\* C24: whenever the Run of a service returns a non-nil error the shared
\* context is cancelled, under every interleaving of the goroutines, which
\* all assign and then test the same err variable: once the goroutine of a
\* service that failed is over, the context is cancelled.
FailedAndOver(i) == services[i].pc = "done" /\ ~services[i].result.nil

C24_FailingServiceCancels == \A i \in Started : FailedAndOver(i) => ctx.cancelled

\* C25: every response object the server emits contains exactly one of the
\* members result and error, never both and never neither, for every handler
\* outcome, a nil value returned with a nil error included.
C25_ResultXorError ==
    \A j \in DOMAIN out.objs : out.objs[j].has = {"result"} \/ out.objs[j].has = {"error"}

\* C26: in every response the server emits, the id is null, a string or an
\* integer: an id that is a float or another JSON kind is never echoed, also
\* when the request fails an earlier sanity check as well.
C26_NoInvalidIdEchoed ==
    \A j \in DOMAIN out.objs : out.objs[j].id = JNull \/ StringOrInteger(out.objs[j].id)

\* C27: processing one request invokes at most one handler, at most once: the
\* handler of the named method exactly once when the request passes the
\* sanity check, the method is registered and the arguments bind, and none
\* otherwise. The handler of a notification is invoked exactly once although
\* no response is emitted, and a batch invokes handlers in request order.
Binds(i) ==
    LET p == Raw(i).params
        in == HandlerOf(i).in
        configured == methods[Raw(i).method].Params
    IN  CASE p.k \in {"absent", "null"} -> Len(in) = 0
          [] p.k = "array" ->
                Len(p.list) = Len(in) /\ \A j \in 1..Len(p.list) : Fits(p.list[j], in[j])
          [] p.k = "object" ->
                \A j \in 1..Len(configured) :
                    IF p.map[configured[j].Name] # JAbsent
                    THEN Fits(p.map[configured[j].Name], in[j])
                    ELSE configured[j].Optional
          [] OTHER -> FALSE

C27_OneInvocationPerRequest ==
    /\ \A i \in 1..Len(Reqs) :
            /\ Len(InvocationsOf(i)) <= 1
            /\ Reached(i) => (Invoked(i) <=> (ToRegistered(i) /\ Binds(i)))
            /\ Invoked(i) =>
                /\ InvocationsOf(i)[1].method = Raw(i).method
                /\ Processed(i)
                /\ IsNotification(i) => resObjs[i].nil
    /\ \A c, d \in DOMAIN calls : c < d => calls[c].idx < calls[d].idx
    /\ \A c \in DOMAIN calls : calls[c].idx \in 1..Len(Reqs)

C27_Witness ==
    /\ \E i, j \in 1..Len(Reqs) :
            /\ i < j
            /\ Invoked(i) /\ IsNotification(i) /\ resObjs[i].nil
            /\ Invoked(j) /\ Answered(j)
            /\ Raw(i).method # Raw(j).method
    /\ Len(calls) = 2

====
